---- MODULE Spec2Model ----
(***************************************************************************)
(* Model of jira-ticket-automations: the ticket-hierarchy resolution and   *)
(* creation ordering of JiraAutomationApp.create_tickets                   *)
(* (src/jira_automation/main.py).                                          *)
(*                                                                         *)
(* Strings that the code inspects character by character (type labels)    *)
(* are sequences of one-character strings, so that str.lower, str.strip    *)
(* and str.replace are computed and not assumed.                           *)
(***************************************************************************)
EXTENDS Integers, Sequences, FiniteSets, TLC

\* ------------------------------------------------------------------ bounds
\* Largest batch handed to create_tickets.
MaxTickets == 3

\* ------------------------------------------------------------- python values
\* Python's None, for an absent parent_index, key, parent_key or epic_key.
None == -1

\* The parent_index of the test's dangling reference (no ticket has it).
DanglingIndex == 99

Range(s) == {s[i] : i \in 1..Len(s)}

\* ------------------------------------------------------------- type labels
EpicLabel == <<"E", "p", "i", "c">>
StoryLabel == <<"S", "t", "o", "r", "y">>
TaskLabel == <<"T", "a", "s", "k">>
SubtaskLabel == <<"S", "u", "b", "t", "a", "s", "k">>
SubDashTaskLabel == <<"S", "u", "b", "-", "t", "a", "s", "k">>
SubSpaceTaskLabel == <<"S", "u", "b", " ", "t", "a", "s", "k">>
LowerEpicLabel == <<"e", "p", "i", "c">>
BugLabel == <<"B", "u", "g">>

\* The labels a batch draws its ticket types from (the type is free text):
\* canonical Epic, Story and Subtask, a separator variant and a case variant,
\* and one label no table knows.  Task and Sub-task are keys of type_order
\* and Task is the type a promoted Subtask is sent with.
TypeLabels ==
    {EpicLabel, StoryLabel, SubtaskLabel, SubSpaceTaskLabel, LowerEpicLabel,
     BugLabel}

\* str.lower() on one character.
LowerChar(c) ==
    CASE c = "A" -> "a" [] c = "B" -> "b" [] c = "C" -> "c" [] c = "D" -> "d"
      [] c = "E" -> "e" [] c = "F" -> "f" [] c = "G" -> "g" [] c = "H" -> "h"
      [] c = "I" -> "i" [] c = "J" -> "j" [] c = "K" -> "k" [] c = "L" -> "l"
      [] c = "M" -> "m" [] c = "N" -> "n" [] c = "O" -> "o" [] c = "P" -> "p"
      [] c = "Q" -> "q" [] c = "R" -> "r" [] c = "S" -> "s" [] c = "T" -> "t"
      [] c = "U" -> "u" [] c = "V" -> "v" [] c = "W" -> "w" [] c = "X" -> "x"
      [] c = "Y" -> "y" [] c = "Z" -> "z" [] OTHER -> c

\* str.lower()
Lower(s) == [i \in 1..Len(s) |-> LowerChar(s[i])]

\* str.replace(ch, "")
RemoveChar(s, ch) == SelectSeq(s, LAMBDA c : c # ch)

RECURSIVE StripLeft(_)
StripLeft(s) ==
    IF s # <<>> /\ Head(s) = " " THEN StripLeft(Tail(s)) ELSE s

RECURSIVE StripRight(_)
StripRight(s) ==
    IF s # <<>> /\ s[Len(s)] = " "
    THEN StripRight(SubSeq(s, 1, Len(s) - 1))
    ELSE s

\* str.strip()
Strip(s) == StripRight(StripLeft(s))

\* type_order = {'Epic': 0, 'Story': 1, 'Task': 1, 'Subtask': 2, 'Sub-task': 2}
\* and type_order.get(t['type'], 1): an exact lookup of the raw label.
type_order(label) ==
    CASE label = EpicLabel -> 0
      [] label = StoryLabel -> 1
      [] label = TaskLabel -> 1
      [] label = SubtaskLabel -> 2
      [] label = SubDashTaskLabel -> 2
      [] OTHER -> 1

\* is_subtask_type(issue_type)
is_subtask_type(issue_type) ==
    RemoveChar(RemoveChar(Lower(Strip(issue_type)), "-"), " ")
        = <<"s", "u", "b", "t", "a", "s", "k">>

\* t.get("type", "").strip().lower() == "epic"
is_epic_type(issue_type) ==
    Lower(Strip(issue_type)) = <<"e", "p", "i", "c">>

LowerSubtaskLabel == <<"s", "u", "b", "t", "a", "s", "k">>
LowerSubDashTaskLabel == <<"s", "u", "b", "-", "t", "a", "s", "k">>

\* JiraClient._normalize_issue_type: type_mapping.get(issue_type, issue_type)
normalize_issue_type(issue_type) ==
    CASE issue_type = SubDashTaskLabel -> SubtaskLabel
      [] issue_type = SubSpaceTaskLabel -> SubtaskLabel
      [] issue_type = LowerSubtaskLabel -> SubtaskLabel
      [] issue_type = LowerSubDashTaskLabel -> SubtaskLabel
      [] OTHER -> issue_type

\* ------------------------------------------------------------------- state
VARIABLES
    tickets,          \* the batch: a list of ticket dicts
    pc,               \* "ready" | "creating" | "returned" | "raised"
    sorted_tickets,   \* sorted(tickets, ...): positions into tickets
    pos,              \* number of tickets of sorted_tickets already handled
    index_to_key,     \* dict: original index -> created key
    created_tickets,  \* list of created-ticket records
    errors,           \* list of notes
    calls,            \* the create_issue calls of the run, with their results
    progress,         \* the display_creation_progress notifications
    flow,             \* who drives: "direct" | "console" | "streamlit" | "format"
    answer,           \* console: what confirm_creation returned, "none" before
    confirm,          \* Streamlit: the confirmation checkbox
    st_created,       \* Streamlit: st.session_state.created
    st_creating,      \* Streamlit: st.session_state.creating
    requirements,     \* Streamlit: the text of the requirements text area
    last_requirements,\* Streamlit: st.session_state.last_requirements
    format_in,        \* a ticket's description and acceptance_criteria
    format_out,       \* the description built from it, <<"unset">> before
    draft_runs,       \* Streamlit: create_tickets runs on the current draft
    stdin,            \* get_requirements: the lines input() will return
    read,             \* get_requirements: line_count
    lines,            \* get_requirements: lines
    empty_lines,      \* get_requirements: empty_lines
    req_out,          \* get_requirements: the string returned
    epic_link_field_id, \* JiraClient._epic_link_field_id
    field_requests,   \* JiraClient: GET /rest/api/3/field requests made
    sent              \* JiraClient: the link fields of each issue posted

\* What the review, confirmation and Streamlit page keep beside the batch.
uiVars ==
    <<flow, answer, confirm, st_created, st_creating, requirements,
      last_requirements>>

\* The description formatting on its own.
formatVars == <<format_in, format_out>>

\* get_requirements on its own.
inputVars == <<stdin, read, lines, empty_lines, req_out>>

\* One JiraClient on its own.
clientVars == <<epic_link_field_id, field_requests, sent>>

\* The parts that are modelled on their own.
pureVars == <<formatVars, inputVars, clientVars>>

\* Everything create_tickets neither reads nor writes.
outsideCreate == <<uiVars, draft_runs, pureVars>>

vars ==
    <<tickets, pc, sorted_tickets, pos, index_to_key, created_tickets,
      errors, calls, progress, uiVars, draft_runs, pureVars>>

\* The summary of the ticket that is built at position i of a batch.
SummaryOf(i) == <<"Ticket", i>>

ParentChoices(n) == {None} \cup (0..(n - 1)) \cup {DanglingIndex}

\* A batch as LLMAnalyzer._process_tickets builds it from n raw tickets:
\* index = position, key = None, type and parent_index as given.
Batch(n, ty, pa) ==
    [i \in 1..n |->
        [index |-> i - 1,
         type |-> ty[i],
         summary |-> SummaryOf(i - 1),
         parent_index |-> pa[i],
         key |-> None]]

\* ------------------------------------------------------- create_tickets
\* index_to_ticket = {ticket['index']: ticket for ticket in tickets}:
\* the keys of the dict ...
TicketIndices == {tickets[i].index : i \in 1..Len(tickets)}

\* ... and its lookup index_to_ticket(ix) (a later ticket with the same index
\* replaces an earlier one).
index_to_ticket(ix) ==
    tickets[CHOOSE i \in 1..Len(tickets) :
                /\ tickets[i].index = ix
                /\ \A j \in (i + 1)..Len(tickets) : tickets[j].index # ix]

\* The sort key of the ticket at position p: (type_order.get(type, 1), index).
SortKeyLess(p, q) ==
    \/ type_order(tickets[p].type) < type_order(tickets[q].type)
    \/ /\ type_order(tickets[p].type) = type_order(tickets[q].type)
       /\ tickets[p].index < tickets[q].index

\* Insert p after every element that is not greater than it (stable).
RECURSIVE InsertSorted(_, _)
InsertSorted(s, p) ==
    IF s = <<>> THEN <<p>>
    ELSE IF SortKeyLess(p, Head(s)) THEN <<p>> \o s
    ELSE <<Head(s)>> \o InsertSorted(Tail(s), p)

RECURSIVE SortPrefix(_)
SortPrefix(k) ==
    IF k = 0 THEN <<>> ELSE InsertSorted(SortPrefix(k - 1), k)

\* sorted(tickets, key=lambda t: (type_order.get(t['type'], 1), t['index']))
Sorted == SortPrefix(Len(tickets))

\* dict.get(key) with None as the default
KeyOf(ix) == IF ix \in DOMAIN index_to_key THEN index_to_key[ix] ELSE None

\* index_to_ticket.get(current, {}).get("parent_index")
ParentOf(current) ==
    IF current \in TicketIndices
    THEN index_to_ticket(current).parent_index
    ELSE None

\* The walk with the visited test made after the append.
RECURSIVE WalkChain_LateCheck(_, _)
WalkChain_LateCheck(current, chain) ==
    IF current = None THEN chain
    ELSE IF current \in Range(chain) THEN Append(chain, current)
    ELSE WalkChain_LateCheck(ParentOf(current), Append(chain, current))

RECURSIVE WalkChain(_, _)
WalkChain(current, chain) ==
    IF current = None \/ current \in Range(chain)
    THEN chain
    ELSE WalkChain(ParentOf(current), Append(chain, current))

\* find_parent_chain(start_index)
find_parent_chain(start_index) == WalkChain(start_index, <<>>)

\* The loop of find_first_non_subtask_ancestor over the chain.
RECURSIVE FirstNonSubtask(_)
FirstNonSubtask(chain) ==
    IF chain = <<>> THEN None
    ELSE IF Head(chain) \in TicketIndices
            /\ ~is_subtask_type(index_to_ticket(Head(chain)).type)
         THEN Head(chain)
         ELSE FirstNonSubtask(Tail(chain))

\* The loop of find_epic_ancestor over the chain.
RECURSIVE FirstEpic(_)
FirstEpic(chain) ==
    IF chain = <<>> THEN None
    ELSE IF Head(chain) \in TicketIndices
            /\ is_epic_type(index_to_ticket(Head(chain)).type)
         THEN Head(chain)
         ELSE FirstEpic(Tail(chain))

\* find_first_non_subtask_ancestor looking at the direct parent only.
find_first_non_subtask_ancestor_DirectOnly(start_index) ==
    IF start_index \in TicketIndices
       /\ ~is_subtask_type(index_to_ticket(start_index).type)
    THEN start_index
    ELSE None

\* find_first_non_subtask_ancestor(start_index)
find_first_non_subtask_ancestor(start_index) ==
    FirstNonSubtask(find_parent_chain(start_index))

\* find_epic_ancestor taking the declared parent whatever its type.
find_epic_ancestor_AnyParent(start_index) ==
    IF start_index \in TicketIndices THEN start_index ELSE None

\* find_epic_ancestor(start_index)
find_epic_ancestor(start_index) ==
    FirstEpic(find_parent_chain(start_index))

SkippedNote(summary) == <<"Skipped subtask (missing parent): ", summary>>
PromotedNote(summary) == <<"Promoted subtask to Task under Epic: ", summary>>
FailedNote(summary) == <<"Failed to create: ", summary>>

Resolution(skip, issue_type, parent_key, epic_key, notes) ==
    [skip |-> skip, issue_type |-> issue_type, parent_key |-> parent_key,
     epic_key |-> epic_key, notes |-> notes]

\* ResolveSubtask without the `continue` for an unresolved ancestor.
ResolveSubtask_OrphanSent(ticket, non_subtask_parent_idx) ==
    IF non_subtask_parent_idx = None
    THEN Resolution(FALSE, ticket.type, None, None, <<>>)
    ELSE IF is_epic_type(index_to_ticket(non_subtask_parent_idx).type)
    THEN IF KeyOf(non_subtask_parent_idx) = None
         THEN Resolution(TRUE, TaskLabel, None, None,
                         <<SkippedNote(ticket.summary)>>)
         ELSE Resolution(FALSE, TaskLabel, None,
                         KeyOf(non_subtask_parent_idx),
                         <<PromotedNote(ticket.summary)>>)
    ELSE IF KeyOf(non_subtask_parent_idx) = None
         THEN Resolution(TRUE, ticket.type, None, None,
                         <<SkippedNote(ticket.summary)>>)
         ELSE Resolution(FALSE, ticket.type,
                         KeyOf(non_subtask_parent_idx), None, <<>>)

\* ResolveSubtask without `issue_type = "Task"` under an Epic.
ResolveSubtask_NotPromoted(ticket, non_subtask_parent_idx) ==
    IF non_subtask_parent_idx = None
    THEN Resolution(TRUE, ticket.type, None, None,
                    <<SkippedNote(ticket.summary)>>)
    ELSE IF is_epic_type(index_to_ticket(non_subtask_parent_idx).type)
    THEN IF KeyOf(non_subtask_parent_idx) = None
         THEN Resolution(TRUE, ticket.type, None, None,
                         <<SkippedNote(ticket.summary)>>)
         ELSE Resolution(FALSE, ticket.type, None,
                         KeyOf(non_subtask_parent_idx),
                         <<PromotedNote(ticket.summary)>>)
    ELSE IF KeyOf(non_subtask_parent_idx) = None
         THEN Resolution(TRUE, ticket.type, None, None,
                         <<SkippedNote(ticket.summary)>>)
         ELSE Resolution(FALSE, ticket.type,
                         KeyOf(non_subtask_parent_idx), None, <<>>)

\* ResolveSubtask without the `continue` for a Story/Task that has no key.
ResolveSubtask_NoKeyCheck(ticket, non_subtask_parent_idx) ==
    IF non_subtask_parent_idx = None
    THEN Resolution(TRUE, ticket.type, None, None,
                    <<SkippedNote(ticket.summary)>>)
    ELSE IF is_epic_type(index_to_ticket(non_subtask_parent_idx).type)
    THEN IF KeyOf(non_subtask_parent_idx) = None
         THEN Resolution(TRUE, TaskLabel, None, None,
                         <<SkippedNote(ticket.summary)>>)
         ELSE Resolution(FALSE, TaskLabel, None,
                         KeyOf(non_subtask_parent_idx),
                         <<PromotedNote(ticket.summary)>>)
    ELSE Resolution(FALSE, ticket.type,
                    KeyOf(non_subtask_parent_idx), None, <<>>)

\* ResolveSubtask whose `continue` paths append no note.
ResolveSubtask_SilentSkip(ticket, non_subtask_parent_idx) ==
    IF non_subtask_parent_idx = None
    THEN Resolution(TRUE, ticket.type, None, None, <<>>)
    ELSE IF is_epic_type(index_to_ticket(non_subtask_parent_idx).type)
    THEN IF KeyOf(non_subtask_parent_idx) = None
         THEN Resolution(TRUE, TaskLabel, None, None, <<>>)
         ELSE Resolution(FALSE, TaskLabel, None,
                         KeyOf(non_subtask_parent_idx),
                         <<PromotedNote(ticket.summary)>>)
    ELSE IF KeyOf(non_subtask_parent_idx) = None
         THEN Resolution(TRUE, ticket.type, None, None, <<>>)
         ELSE Resolution(FALSE, ticket.type,
                         KeyOf(non_subtask_parent_idx), None, <<>>)

\* ResolveSubtask that notes the promotion before it looks for the Epic's key.
ResolveSubtask_PromotedThenSkipped(ticket, non_subtask_parent_idx) ==
    IF non_subtask_parent_idx = None
    THEN Resolution(TRUE, ticket.type, None, None,
                    <<SkippedNote(ticket.summary)>>)
    ELSE IF is_epic_type(index_to_ticket(non_subtask_parent_idx).type)
    THEN IF KeyOf(non_subtask_parent_idx) = None
         THEN Resolution(TRUE, TaskLabel, None, None,
                         <<PromotedNote(ticket.summary),
                           SkippedNote(ticket.summary)>>)
         ELSE Resolution(FALSE, TaskLabel, None,
                         KeyOf(non_subtask_parent_idx),
                         <<PromotedNote(ticket.summary)>>)
    ELSE IF KeyOf(non_subtask_parent_idx) = None
         THEN Resolution(TRUE, ticket.type, None, None,
                         <<SkippedNote(ticket.summary)>>)
         ELSE Resolution(FALSE, ticket.type,
                         KeyOf(non_subtask_parent_idx), None, <<>>)

\* ResolveSubtask that attaches a Subtask to its Epic as to any other parent.
ResolveSubtask_UnderEpic(ticket, non_subtask_parent_idx) ==
    IF non_subtask_parent_idx = None
    THEN Resolution(TRUE, ticket.type, None, None,
                    <<SkippedNote(ticket.summary)>>)
    ELSE IF KeyOf(non_subtask_parent_idx) = None
         THEN Resolution(TRUE, ticket.type, None, None,
                         <<SkippedNote(ticket.summary)>>)
         ELSE Resolution(FALSE, ticket.type,
                         KeyOf(non_subtask_parent_idx), None, <<>>)

\* The Subtask branch of the loop body, under a non-None parent_index.
ResolveSubtask(ticket, non_subtask_parent_idx) ==
    IF non_subtask_parent_idx = None
    THEN Resolution(TRUE, ticket.type, None, None,
                    <<SkippedNote(ticket.summary)>>)
    ELSE IF is_epic_type(index_to_ticket(non_subtask_parent_idx).type)
    THEN IF KeyOf(non_subtask_parent_idx) = None
         THEN Resolution(TRUE, TaskLabel, None, None,
                         <<SkippedNote(ticket.summary)>>)
         ELSE Resolution(FALSE, TaskLabel, None,
                         KeyOf(non_subtask_parent_idx),
                         <<PromotedNote(ticket.summary)>>)
    ELSE IF KeyOf(non_subtask_parent_idx) = None
         THEN Resolution(TRUE, ticket.type, None, None,
                         <<SkippedNote(ticket.summary)>>)
         ELSE Resolution(FALSE, ticket.type,
                         KeyOf(non_subtask_parent_idx), None, <<>>)

\* ResolveOther that also links the declared parent directly.
ResolveOther_DirectParent(ticket, epic_parent_idx) ==
    Resolution(FALSE, ticket.type, KeyOf(ticket.parent_index),
               IF epic_parent_idx # None THEN KeyOf(epic_parent_idx) ELSE None,
               <<>>)

\* The Epic/Story/Task branch of the loop body, under a non-None parent_index.
ResolveOther(ticket, epic_parent_idx) ==
    Resolution(FALSE, ticket.type, None,
               IF epic_parent_idx # None THEN KeyOf(epic_parent_idx) ELSE None,
               <<>>)

\* "Determine parent key": the linkage of one ticket of the loop.
Resolve(ticket) ==
    IF ticket.parent_index = None
    THEN Resolution(FALSE, ticket.type, None, None, <<>>)
    ELSE IF is_subtask_type(ticket.type)
         THEN ResolveSubtask(ticket,
                  find_first_non_subtask_ancestor(ticket.parent_index))
         ELSE ResolveOther(ticket, find_epic_ancestor(ticket.parent_index))

\* The loop running over tickets instead of sorted_tickets.
Current_Unsorted == tickets[pos + 1]

\* The ticket the loop is at.
Current == tickets[sorted_tickets[pos + 1]]

\* self.ui.display_creation_progress(len(created_tickets) + 1, len(tickets), summary)
Notify(ticket) ==
    Append(progress, <<Len(created_tickets) + 1, Len(tickets), ticket.summary>>)

\* The key the remote system gives to the next issue it creates.
NewKey == Len(SelectSeq(calls, LAMBDA c : c.result # None)) + 1

Call(ticket, r, result) ==
    [index |-> ticket.index, issue_type |-> r.issue_type,
     summary |-> ticket.summary, parent_key |-> r.parent_key,
     epic_key |-> r.epic_key, result |-> result]

\* What requests.post / raise_for_status can do in create_issue: answer with
\* the new issue, or raise one of these exceptions (a timeout=30 expiry raises
\* Timeout).
RequestFailures == {"HTTPError", "ConnectionError", "Timeout"}

\* The classes `except requests.exceptions.RequestException` catches.
RequestException == {"HTTPError", "ConnectionError", "Timeout"}

\* An except clause that names HTTPError only.
create_issue_OnlyHttpErrorCaught(outcome, key) ==
    IF outcome = "ok" THEN [raised |-> FALSE, value |-> key]
    ELSE IF outcome = "HTTPError" THEN [raised |-> FALSE, value |-> None]
    ELSE [raised |-> TRUE, value |-> None]

\* JiraClient.create_issue: response.json() on success, None when the request
\* raised a RequestException, the exception itself otherwise.
create_issue(outcome, key) ==
    IF outcome = "ok" THEN [raised |-> FALSE, value |-> key]
    ELSE IF outcome \in RequestException THEN [raised |-> FALSE, value |-> None]
    ELSE [raised |-> TRUE, value |-> None]

\* The locals of create_tickets before it is called.
NotStarted ==
    /\ sorted_tickets = <<>>
    /\ pos = 0
    /\ index_to_key = <<>>
    /\ created_tickets = <<>>
    /\ errors = <<>>
    /\ calls = <<>>
    /\ progress = <<>>

\* No console answer yet and a fresh Streamlit session.
UiIdle ==
    /\ answer = "none"
    /\ confirm = FALSE
    /\ st_created = FALSE
    /\ st_creating = FALSE
    /\ requirements = <<>>
    /\ last_requirements = <<>>
    /\ draft_runs = 0

FormatIdle ==
    /\ format_in = [description |-> <<>>, acceptance_criteria |-> <<>>]
    /\ format_out = <<"unset">>

\* get_requirements is not running.
InputIdle ==
    /\ stdin = <<>>
    /\ read = 0
    /\ lines = <<>>
    /\ empty_lines = 0
    /\ req_out = <<"unset">>

\* JiraClient.__init__: nothing cached, nothing requested.
ClientIdle ==
    /\ epic_link_field_id = None
    /\ field_requests = 0
    /\ sent = <<>>

\* create_tickets called directly on a batch, as the tests do.
Init ==
    /\ \E n \in 1..MaxTickets :
        \E ty \in [1..n -> TypeLabels], pa \in [1..n -> ParentChoices(n)] :
            tickets = Batch(n, ty, pa)
    /\ pc = "ready"
    /\ flow = "direct"
    /\ NotStarted
    /\ UiIdle
    /\ FormatIdle
    /\ InputIdle
    /\ ClientIdle

\* create_tickets up to the loop: the two lists, the lookup and the sort.
StartCreate ==
    /\ pc = "ready"
    /\ pc' = "creating"
    /\ sorted_tickets' = Sorted
    /\ UNCHANGED <<tickets, pos, index_to_key, created_tickets, errors,
                   calls, progress, outsideCreate>>

\* One iteration that ends in `continue`: the ticket is skipped.
SkipTicket ==
    /\ pc = "creating"
    /\ pos < Len(sorted_tickets)
    /\ LET r == Resolve(Current) IN
        /\ r.skip
        /\ errors' = errors \o r.notes
    /\ progress' = Notify(Current)
    /\ pos' = pos + 1
    /\ UNCHANGED <<tickets, pc, sorted_tickets, index_to_key,
                   created_tickets, calls, outsideCreate>>

\* A store that forgets the keys stored before.
StoreKey_Alone(ix, issue_key) == [i \in {ix} |-> issue_key]

\* index_to_key[ticket['index']] = issue_key
StoreKey(ix, issue_key) ==
    [i \in DOMAIN index_to_key \cup {ix} |->
        IF i = ix THEN issue_key ELSE index_to_key[i]]

\* A record that carries the position in the plan for the ticket's index.
CreatedRecord_PlanPosition(ticket, issue_key) ==
    [key |-> issue_key, type |-> ticket.type, summary |-> ticket.summary,
     original_index |-> pos]

\* The record appended to created_tickets (its url is a function of the key).
CreatedRecord(ticket, issue_key) ==
    [key |-> issue_key, type |-> ticket.type, summary |-> ticket.summary,
     original_index |-> ticket.index]

\* A write that also stores the issue type that was sent.
WriteKey_AndType(ticket, r, issue_key) ==
    [ticket EXCEPT !.key = issue_key, !.type = r.issue_type]

\* ticket['key'] = issue_key, the one write to a ticket of the batch
WriteKey(ticket, r, issue_key) == [ticket EXCEPT !.key = issue_key]

\* One iteration in which create_issue returns the new issue.
CreateTicket ==
    /\ pc = "creating"
    /\ pos < Len(sorted_tickets)
    /\ LET r == Resolve(Current)
           result == create_issue("ok", NewKey)
           issue_key == result.value
       IN
        /\ ~r.skip
        /\ ~result.raised
        /\ issue_key # None
        /\ calls' = Append(calls, Call(Current, r, issue_key))
        /\ index_to_key' = StoreKey(Current.index, issue_key)
        /\ created_tickets' =
               Append(created_tickets, CreatedRecord(Current, issue_key))
        /\ tickets' =
               [tickets EXCEPT
                   ![sorted_tickets[pos + 1]] = WriteKey(Current, r, issue_key)]
        /\ errors' = errors \o r.notes
    /\ progress' = Notify(Current)
    /\ pos' = pos + 1
    /\ UNCHANGED <<pc, sorted_tickets, outsideCreate>>

\* One iteration in which the request of create_issue fails: create_issue
\* returns None and the loop goes on, or the exception leaves create_tickets.
FailTicket ==
    /\ pc = "creating"
    /\ pos < Len(sorted_tickets)
    /\ \E failure \in RequestFailures :
        LET r == Resolve(Current)
            result == create_issue(failure, NewKey)
        IN
        /\ ~r.skip
        /\ calls' = Append(calls, Call(Current, r, None))
        /\ IF result.raised
           THEN /\ pc' = "raised"
                /\ errors' = errors \o r.notes
                /\ pos' = pos
           ELSE /\ pc' = pc
                /\ errors' =
                       (errors \o r.notes) \o <<FailedNote(Current.summary)>>
                /\ pos' = pos + 1
    /\ progress' = Notify(Current)
    /\ UNCHANGED <<tickets, sorted_tickets, index_to_key, created_tickets,
                   outsideCreate>>

\* return created_tickets, errors
Return ==
    /\ pc = "creating"
    /\ pos = Len(sorted_tickets)
    /\ pc' = "returned"
    /\ UNCHANGED <<tickets, sorted_tickets, pos, index_to_key,
                   created_tickets, errors, calls, progress, outsideCreate>>

Next ==
    \/ StartCreate
    \/ SkipTicket
    \/ CreateTicket
    \/ FailTicket
    \/ Return

Spec == Init /\ [][Next]_vars

\* --------------------------------------------- description formatting
\* Most acceptance criteria of one ticket.
MaxCriteria == 3

\* "\n\nAcceptance Criteria:\n" (a line feed is the character "\n")
CriteriaHeader ==
    <<"\n", "\n", "A", "c", "c", "e", "p", "t", "a", "n", "c", "e", " ",
      "C", "r", "i", "t", "e", "r", "i", "a", ":", "\n">>

\* The bullet character U+2022 of the f-string, written in ASCII.
BulletMark == "*"

\* f"{BulletMark} {ac}\n"
Bullet(ac) == (<<BulletMark, " ">> \o ac) \o <<"\n">>

RECURSIVE Bullets(_)
Bullets(criteria) ==
    IF criteria = <<>> THEN <<>>
    ELSE Bullet(Head(criteria)) \o Bullets(Tail(criteria))

\* "Format description with acceptance criteria": the header and one bullet
\* per element when the list is truthy, the description alone otherwise.
FormatDescription(description, acceptance_criteria) ==
    IF acceptance_criteria # <<>>
    THEN (description \o CriteriaHeader) \o Bullets(acceptance_criteria)
    ELSE description

\* Criteria as the analyzer may return them: text, blank or empty.
CriterionTexts == {<<>>, <<"a">>, <<"b", "c">>}

DescriptionTexts == {<<>>, <<"d">>}

InitFormat ==
    /\ \E n \in 0..MaxCriteria :
        \E ac \in [1..n -> CriterionTexts], d \in DescriptionTexts :
            format_in = [description |-> d, acceptance_criteria |-> ac]
    /\ format_out = <<"unset">>
    /\ flow = "format"
    /\ pc = "format"
    /\ tickets = <<>>
    /\ NotStarted
    /\ UiIdle
    /\ InputIdle
    /\ ClientIdle

\* The description of one loop iteration is built.
BuildDescription ==
    /\ pc = "format"
    /\ format_out' =
           FormatDescription(format_in.description,
                             format_in.acceptance_criteria)
    /\ pc' = "formatted"
    /\ UNCHANGED <<tickets, sorted_tickets, pos, index_to_key,
                   created_tickets, errors, calls, progress, uiVars,
                   draft_runs, format_in, inputVars, clientVars>>

NextFormat == BuildDescription

SpecFormat == InitFormat /\ [][NextFormat]_vars

\* ------------------------------------------------- review and confirmation
\* The type labels of the batches that are reviewed.
ReviewLabels == {EpicLabel, StoryLabel, SubtaskLabel}

\* display_tickets_preview evaluates tickets[parent_index] for every ticket
\* whose parent_index is not None: an IndexError when it is past the end.
PreviewRaises(ts) ==
    \E k \in 1..Len(ts) :
        /\ ts[k].parent_index # None
        /\ ts[k].parent_index >= Len(ts)

\* Where review_and_edit_tickets is after a preview of ts: back at the
\* prompt, or gone with the IndexError that only a ValueError handler meets.
AfterPreview(ts) == IF PreviewRaises(ts) THEN "crashed" ELSE "review"

\* What the operator may type at "New summary": the default or a new text.
EditedSummary(summary) == <<"Edited", summary[2]>>

\* edit_ticket: {**ticket, 'summary': new_summary, ...}
edit_ticket(ticket, new_summary) == [ticket EXCEPT !.summary = new_summary]

\* tickets.pop(idx), idx counted from 0
Pop(ts, idx) ==
    [k \in 1..(Len(ts) - 1) |-> IF k <= idx THEN ts[k] ELSE ts[k + 1]]

Reindex_Kept(ts) == ts

\* for i, ticket in enumerate(tickets): ticket['index'] = i
Reindex(ts) == [k \in 1..Len(ts) |-> [ts[k] EXCEPT !.index = k - 1]]

AfterConfirm_AlwaysCreate(confirmed) == "ready"

\* run: `if not self.ui.confirm_creation(): sys.exit(0)`, else create_tickets
AfterConfirm(confirmed) == IF confirmed THEN "ready" ELSE "exited"

\* What the review and the confirmation leave alone.
consoleIdle ==
    <<sorted_tickets, pos, index_to_key, created_tickets, errors, calls,
      progress, flow, confirm, st_created, st_creating, requirements,
      last_requirements, draft_runs, pureVars>>

\* review_and_edit_tickets opens with a preview of the batch.
InitialPreview ==
    /\ flow = "console"
    /\ pc = "preview"
    /\ pc' = AfterPreview(tickets)
    /\ UNCHANGED <<tickets, answer, consoleIdle>>

\* 'e' with a valid ticket number: the ticket is replaced by its edited
\* copy and the batch is previewed again.
EditTicket ==
    /\ flow = "console"
    /\ pc = "review"
    /\ \E idx \in 0..(Len(tickets) - 1) :
        \E new_summary \in {tickets[idx + 1].summary,
                            EditedSummary(tickets[idx + 1].summary)} :
            /\ tickets' =
                   [tickets EXCEPT
                       ![idx + 1] = edit_ticket(tickets[idx + 1], new_summary)]
            /\ pc' = AfterPreview(tickets')
    /\ UNCHANGED <<answer, consoleIdle>>

\* 'd' with a valid ticket number: the ticket is popped, the survivors are
\* renumbered and the batch is previewed again.
DeleteTicket ==
    /\ flow = "console"
    /\ pc = "review"
    /\ \E idx \in 0..(Len(tickets) - 1) :
        /\ tickets' = Reindex(Pop(tickets, idx))
        /\ pc' = AfterPreview(tickets')
    /\ UNCHANGED <<answer, consoleIdle>>

\* 'q': sys.exit(0)
QuitReview ==
    /\ flow = "console"
    /\ pc = "review"
    /\ pc' = "exited"
    /\ UNCHANGED <<tickets, answer, consoleIdle>>

\* 'c': the loop is left and the batch returned to run.
ContinueReview ==
    /\ flow = "console"
    /\ pc = "review"
    /\ pc' = "confirm"
    /\ UNCHANGED <<tickets, answer, consoleIdle>>

\* run asks confirm_creation (default False) and exits unless it is True.
ConfirmCreation ==
    /\ flow = "console"
    /\ pc = "confirm"
    /\ \E confirmed \in BOOLEAN :
        /\ answer' = IF confirmed THEN "yes" ELSE "no"
        /\ pc' = AfterConfirm(confirmed)
    /\ UNCHANGED <<tickets, consoleIdle>>

\* ------------------------------------------------------- Streamlit page
\* Each action below is one rerun of main() caused by one interaction.

\* What the operator may have in the requirements text area.
RequirementTexts == {<<>>, <<" ">>, <<"a">>, <<"a", " ">>, <<"b">>}

\* What analyze_requirements may return to the page: nothing, one Story, or
\* an Epic with a Story under it.
StAnalyzerResults ==
    {<<>>,
     Batch(1, <<StoryLabel>>, <<None>>),
     Batch(2, <<EpicLabel, StoryLabel>>, <<None, 0>>)}

\* The checkbox keeps its value while it is drawn; main returns before
\* drawing it when there are no tickets, and its value may then be dropped.
CheckboxAfter(ts) == IF ts = <<>> THEN {confirm, FALSE} ELSE {confirm}

\* create_disabled of the "Create Tickets" button
create_disabled ==
    \/ st_creating
    \/ st_created
    \/ ~confirm
    \/ tickets = <<>>
    \/ Strip(requirements) # last_requirements

\* The operator changes the text of the requirements area.
StTypeRequirements ==
    /\ flow = "streamlit"
    /\ pc = "idle"
    /\ \E text \in RequirementTexts \ {requirements} :
        requirements' = text
    /\ UNCHANGED <<tickets, pc, sorted_tickets, pos, index_to_key,
                   created_tickets, errors, calls, progress, flow, answer,
                   confirm, st_created, st_creating, last_requirements,
                   draft_runs, pureVars>>

\* "Analyze Requirements" with text in the area: the draft is replaced and
\* the session is ready for one creation.
StAnalyze ==
    /\ flow = "streamlit"
    /\ pc = "idle"
    /\ ~st_creating
    /\ Strip(requirements) # <<>>
    /\ \E result \in StAnalyzerResults :
        /\ tickets' = result
        /\ confirm' \in CheckboxAfter(result)
    /\ last_requirements' = Strip(requirements)
    /\ st_created' = FALSE
    /\ created_tickets' = <<>>
    /\ errors' = <<>>
    /\ draft_runs' = 0
    /\ UNCHANGED <<pc, sorted_tickets, pos, index_to_key, calls, progress,
                   flow, answer, st_creating, requirements, pureVars>>

\* "Clear Draft"
StClear ==
    /\ flow = "streamlit"
    /\ pc = "idle"
    /\ ~st_creating
    /\ tickets' = <<>>
    /\ st_created' = FALSE
    /\ last_requirements' = <<>>
    /\ created_tickets' = <<>>
    /\ errors' = <<>>
    /\ confirm' \in CheckboxAfter(<<>>)
    /\ draft_runs' = 0
    /\ UNCHANGED <<pc, sorted_tickets, pos, index_to_key, calls, progress,
                   flow, answer, st_creating, requirements, pureVars>>

\* The confirmation checkbox is drawn below a non-empty draft and is
\* disabled while creating or once created.
StToggleConfirm ==
    /\ flow = "streamlit"
    /\ pc = "idle"
    /\ tickets # <<>>
    /\ ~(st_creating \/ st_created)
    /\ confirm' = ~confirm
    /\ UNCHANGED <<tickets, pc, sorted_tickets, pos, index_to_key,
                   created_tickets, errors, calls, progress, flow, answer,
                   st_created, st_creating, requirements, last_requirements,
                   draft_runs, pureVars>>

\* "Create Tickets": drawn unless created, clickable unless create_disabled;
\* creating is set and create_tickets is entered with fresh locals.
StClickCreate ==
    /\ flow = "streamlit"
    /\ pc = "idle"
    /\ tickets # <<>>
    /\ ~st_created
    /\ ~create_disabled
    /\ st_creating' = TRUE
    /\ pc' = "ready"
    /\ sorted_tickets' = <<>>
    /\ pos' = 0
    /\ index_to_key' = <<>>
    /\ created_tickets' = <<>>
    /\ errors' = <<>>
    /\ calls' = <<>>
    /\ progress' = <<>>
    /\ draft_runs' = draft_runs + 1
    /\ UNCHANGED <<tickets, flow, answer, confirm, st_created, requirements,
                   last_requirements, pureVars>>

\* A page that forgets that the draft was created.
CreatedAfterRun_Forgotten == FALSE

\* st.session_state.created = True
CreatedAfterRun == TRUE

\* create_tickets has returned to the page: the flags and the results are
\* stored in the session.
StFinishCreate ==
    /\ flow = "streamlit"
    /\ pc = "returned"
    /\ st_creating' = FALSE
    /\ st_created' = CreatedAfterRun
    /\ pc' = "idle"
    /\ UNCHANGED <<tickets, sorted_tickets, pos, index_to_key,
                   created_tickets, errors, calls, progress, flow, answer,
                   confirm, requirements, last_requirements, draft_runs,
                   pureVars>>

\* ------------------------------------------------------------ the flows
\* Either the console run has a batch from the analyzer and is about to
\* review it, or a Streamlit session has just been opened.
InitFlow ==
    /\ \/ /\ flow = "console"
          /\ pc = "preview"
          /\ \E n \in 1..MaxTickets :
              \E ty \in [1..n -> ReviewLabels],
                 pa \in [1..n -> ParentChoices(n)] :
                  tickets = Batch(n, ty, pa)
       \/ /\ flow = "streamlit"
          /\ pc = "idle"
          /\ tickets = <<>>
    /\ NotStarted
    /\ UiIdle
    /\ FormatIdle
    /\ InputIdle
    /\ ClientIdle

NextFlow ==
    \/ InitialPreview
    \/ EditTicket
    \/ DeleteTicket
    \/ QuitReview
    \/ ContinueReview
    \/ ConfirmCreation
    \/ StTypeRequirements
    \/ StAnalyze
    \/ StClear
    \/ StToggleConfirm
    \/ StClickCreate
    \/ StFinishCreate
    \/ StartCreate
    \/ SkipTicket
    \/ CreateTicket
    \/ FailTicket
    \/ Return

SpecFlow == InitFlow /\ [][NextFlow]_vars

\* ------------------------------------------------------- get_requirements
\* Most lines the operator types before the input ends.
MaxInputLines == 4

DoneCommand == <<"/", "d", "o", "n", "e">>

\* What one input() may return: nothing, a space, text, or the command in
\* two spellings.
InputLineTexts ==
    {<<>>, <<" ">>, <<"a">>, <<"b">>, DoneCommand,
     <<" ", "/", "D", "o", "n", "e", " ">>}

\* line.strip().lower() == "/done"
is_done_line(line) == Lower(Strip(line)) = DoneCommand

\* not line.strip()
is_empty_line(line) == Strip(line) = <<>>

\* A counter that an ordinary line leaves as it is.
EmptyLinesAfter_NoReset(count, line) ==
    IF is_empty_line(line) THEN count + 1 ELSE count

\* empty_lines += 1 for an empty line, empty_lines = 0 for any other
EmptyLinesAfter(count, line) ==
    IF is_empty_line(line) THEN count + 1 ELSE 0

\* '\n'.join(lines)
RECURSIVE JoinLines(_)
JoinLines(ls) ==
    IF ls = <<>> THEN <<>>
    ELSE IF Len(ls) = 1 THEN Head(ls)
    ELSE (Head(ls) \o <<"\n">>) \o JoinLines(Tail(ls))

InitInput ==
    /\ \E n \in 0..MaxInputLines :
        \E typed \in [1..n -> InputLineTexts] : stdin = typed
    /\ read = 0
    /\ lines = <<>>
    /\ empty_lines = 0
    /\ req_out = <<"unset">>
    /\ flow = "input"
    /\ pc = "input"
    /\ tickets = <<>>
    /\ NotStarted
    /\ UiIdle
    /\ FormatIdle
    /\ ClientIdle

outsideInput ==
    <<tickets, sorted_tickets, pos, index_to_key, created_tickets, errors,
      calls, progress, uiVars, draft_runs, formatVars, clientVars>>

\* One iteration of the loop in which input() returns a line; on `break`
\* the lines are joined and returned.
ReadLine ==
    /\ pc = "input"
    /\ read < Len(stdin)
    /\ LET line == stdin[read + 1] IN
        /\ read' = read + 1
        /\ IF is_done_line(line)
           THEN /\ pc' = "got"
                /\ req_out' = JoinLines(lines)
                /\ UNCHANGED <<lines, empty_lines>>
           ELSE /\ empty_lines' = EmptyLinesAfter(empty_lines, line)
                /\ lines' =
                       IF is_empty_line(line) THEN lines
                       ELSE Append(lines, line)
                /\ IF is_empty_line(line) /\ empty_lines' >= 2
                   THEN pc' = "got" /\ req_out' = JoinLines(lines')
                   ELSE pc' = pc /\ req_out' = req_out
    /\ UNCHANGED <<stdin, outsideInput>>

\* input() raises EOFError: the loop is left, the lines joined and returned.
EndOfInput ==
    /\ pc = "input"
    /\ read = Len(stdin)
    /\ pc' = "got"
    /\ req_out' = JoinLines(lines)
    /\ UNCHANGED <<stdin, read, lines, empty_lines, outsideInput>>

\* KeyboardInterrupt while waiting: "" is returned.
InterruptInput ==
    /\ pc = "input"
    /\ pc' = "cancelled"
    /\ req_out' = <<>>
    /\ UNCHANGED <<stdin, read, lines, empty_lines, outsideInput>>

NextInput ==
    \/ ReadLine
    \/ EndOfInput
    \/ InterruptInput

SpecInput == InitInput /\ [][NextInput]_vars

\* -------------------------------------------------------------- JiraClient
\* Most create_issue calls made on one client.
MaxClientCalls == 3

\* Ids under which a site may list its "Epic Link" field: the number n of
\* customfield_n.
FieldIds == {10014, 10008}

\* What GET /rest/api/3/field does when it is asked: the request raises, or
\* it answers with a list in which the field named Epic Link has this id
\* (None: the list has no such field).
FieldLookups ==
    {[raised |-> TRUE, id |-> None]}
    \cup {[raised |-> FALSE, id |-> id] : id \in FieldIds \cup {None}}

\* The keys create_tickets may pass as parent_key and as epic_key.
ParentKeys == {None, 1}
EpicKeys == {None, 2}

\* A lookup that asks the site every time.
get_epic_link_field_id_NoCache(cache, lookup) ==
    IF ~lookup.raised /\ lookup.id # None
    THEN [id |-> lookup.id, cache |-> lookup.id, requests |-> 1]
    ELSE [id |-> None, cache |-> None, requests |-> 1]

\* _get_epic_link_field_id: the cached id when there is one, else one field
\* request whose answer is cached when it names the field.
get_epic_link_field_id(cache, lookup) ==
    IF cache # None
    THEN [id |-> cache, cache |-> cache, requests |-> 0]
    ELSE IF ~lookup.raised /\ lookup.id # None
    THEN [id |-> lookup.id, cache |-> lookup.id, requests |-> 1]
    ELSE [id |-> None, cache |-> None, requests |-> 1]

\* issue_data["fields"]: "parent" and the Epic Link field, None when unset.
IssueLinks(parent_key, epic_key, epic_link_field) ==
    [parent_key |-> parent_key,
     epic_key |-> epic_key,
     parent |->
         IF parent_key # None THEN parent_key
         ELSE IF epic_key # None /\ epic_link_field = None THEN epic_key
         ELSE None,
     link_field |-> IF epic_key # None THEN epic_link_field ELSE None]

InitClient ==
    /\ ClientIdle
    /\ flow = "client"
    /\ pc = "client"
    /\ tickets = <<>>
    /\ NotStarted
    /\ UiIdle
    /\ FormatIdle
    /\ InputIdle

outsideClient ==
    <<tickets, pc, sorted_tickets, pos, index_to_key, created_tickets,
      errors, calls, progress, uiVars, draft_runs, formatVars, inputVars>>

\* One create_issue call without epic_key: no field lookup.
ClientCreateIssue ==
    /\ pc = "client"
    /\ Len(sent) < MaxClientCalls
    /\ \E parent_key \in ParentKeys :
        sent' = Append(sent, IssueLinks(parent_key, None, None))
    /\ UNCHANGED <<epic_link_field_id, field_requests, outsideClient>>

\* One create_issue call with an epic_key: the field id is looked up first.
ClientCreateIssueUnderEpic ==
    /\ pc = "client"
    /\ Len(sent) < MaxClientCalls
    /\ \E parent_key \in ParentKeys, epic_key \in EpicKeys \ {None},
          lookup \in FieldLookups :
        LET found == get_epic_link_field_id(epic_link_field_id, lookup) IN
        /\ epic_link_field_id' = found.cache
        /\ field_requests' = field_requests + found.requests
        /\ sent' = Append(sent, IssueLinks(parent_key, epic_key, found.id))
    /\ UNCHANGED outsideClient

NextClient ==
    \/ ClientCreateIssue
    \/ ClientCreateIssueUnderEpic

SpecClient == InitClient /\ [][NextClient]_vars

\* ------------------------------------------------------------- vocabulary
\* The tier of the normalized type: Epic 0, Story/Task/unrecognized 1,
\* Subtask 2, with the code's own case- and separator-insensitive tests.
NormalTier(label) ==
    IF is_epic_type(label) THEN 0
    ELSE IF is_subtask_type(label) THEN 2
    ELSE 1

Planned == pc # "ready"

Indices == TicketIndices

\* The 1-based position of ticket ix in the planned order.
PlanPos(ix) ==
    CHOOSE k \in 1..Len(sorted_tickets) : tickets[sorted_tickets[k]].index = ix

\* The loop has finished its iteration for ticket ix.
Handled(ix) == Planned /\ PlanPos(ix) <= pos

CallsOf(ix) == {i \in 1..Len(calls) : calls[i].index = ix}

Count(seq, x) == Cardinality({i \in 1..Len(seq) : seq[i] = x})

IsCreated(ix) ==
    \E i \in 1..Len(created_tickets) : created_tickets[i].original_index = ix

\* Ticket ix ended Skipped: one missing-parent note, no call, nothing created.
Skipped(ix) ==
    /\ Handled(ix)
    /\ Count(errors, SkippedNote(index_to_ticket(ix).summary)) = 1
    /\ CallsOf(ix) = {}
    /\ ~IsCreated(ix)
    /\ KeyOf(ix) = None

\* Ticket a had its remote key when the loop came to ticket ix.
HadKeyBefore(a, ix) == KeyOf(a) # None /\ PlanPos(a) < PlanPos(ix)

IsSubtaskTicket(ix) == is_subtask_type(index_to_ticket(ix).type)
IsEpicTicket(ix) == is_epic_type(index_to_ticket(ix).type)
IsStoryOrTaskTicket(ix) == ~IsSubtaskTicket(ix) /\ ~IsEpicTicket(ix)
HasParent(ix) == index_to_ticket(ix).parent_index # None

\* The k-th ticket index up the parent links from start (start itself for
\* k = 0), None once a link is absent or leaves the batch.
RECURSIVE Ancestor(_, _)
Ancestor(start, k) ==
    IF k = 0 THEN start
    ELSE LET below == Ancestor(start, k - 1) IN
         IF below \in Indices THEN index_to_ticket(below).parent_index
         ELSE None

\* The nearest live ticket up the links from start whose type satisfies
\* Match, None when no such ticket is met.
NearestAncestor(start, Match(_)) ==
    LET hits == {k \in 0..Len(tickets) :
                    /\ Ancestor(start, k) \in Indices
                    /\ Match(index_to_ticket(Ancestor(start, k)).type)}
    IN IF hits = {} THEN None
       ELSE Ancestor(start, CHOOSE k \in hits : \A h \in hits : k <= h)

NotSubtaskType(label) == ~is_subtask_type(label)

\* first_non_subtask_ancestor(parent_index) of ticket ix
NonSubtaskAncestor(ix) ==
    NearestAncestor(index_to_ticket(ix).parent_index, NotSubtaskType)

\* nearest_epic_ancestor(parent_index) of ticket ix
EpicAncestor(ix) ==
    NearestAncestor(index_to_ticket(ix).parent_index, is_epic_type)

\* The ancestor the executor resolves for ticket ix, None when there is none.
ResolvedAncestor(ix) ==
    IF ~HasParent(ix) THEN None
    ELSE IF IsSubtaskTicket(ix) THEN NonSubtaskAncestor(ix)
    ELSE EpicAncestor(ix)

\* ------------------------------------------------------------------ C1
\* C1: the processing order is the stable sort on (tier(normalize(type)),
\* index): of any two tickets of the plan, the earlier one has the smaller
\* normalized tier, or the same tier and the smaller index.
C1_PlanSortedByNormalizedTier ==
    Planned =>
        \A k, l \in 1..Len(sorted_tickets) :
            k < l =>
                LET a == tickets[sorted_tickets[k]]
                    b == tickets[sorted_tickets[l]]
                IN \/ NormalTier(a.type) < NormalTier(b.type)
                   \/ /\ NormalTier(a.type) = NormalTier(b.type)
                      /\ a.index < b.index

\* ------------------------------------------------------------------ C2
\* C2: the resolved ancestor of a Subtask (first non-Subtask ancestor) or of
\* a Story/Task (nearest Epic ancestor) comes before the ticket in the plan.
C2_ResolvedAncestorPlannedEarlier ==
    Planned =>
        \A ix \in Indices :
            (/\ HasParent(ix)
             /\ IsSubtaskTicket(ix) \/ IsStoryOrTaskTicket(ix)
             /\ ResolvedAncestor(ix) # None)
            => PlanPos(ResolvedAncestor(ix)) < PlanPos(ix)

\* ------------------------------------------------------------------ C3
\* C3: a handled Subtask whose parent_index chain holds no live non-Subtask
\* ticket is Skipped: its missing-parent note is in the notes, there is no
\* Created record and no create_issue call for it.
C3_OrphanSubtaskSkipped ==
    \A ix \in Indices :
        (/\ Handled(ix)
         /\ IsSubtaskTicket(ix)
         /\ HasParent(ix)
         /\ NonSubtaskAncestor(ix) = None)
        => Skipped(ix)

\* A finished run that skipped a Subtask with a dangling parent and a Subtask
\* in a cycle made only of Subtasks.
C3_Witness ==
    /\ pc = "returned"
    /\ \E ix \in Indices :
        /\ IsSubtaskTicket(ix)
        /\ index_to_ticket(ix).parent_index = DanglingIndex
        /\ Skipped(ix)
    /\ \E ix \in Indices :
        /\ IsSubtaskTicket(ix)
        /\ HasParent(ix)
        /\ index_to_ticket(ix).parent_index \in Indices
        /\ index_to_ticket(ix).parent_index # ix
        /\ \E k \in 1..Len(tickets) : Ancestor(ix, k) = ix
        /\ NonSubtaskAncestor(ix) = None
        /\ Skipped(ix)

\* ------------------------------------------------------------------ C4
\* C4: no create_issue call with a Subtask issue type carries
\* parent_key = None (a Subtask without parent_index is Skipped).
C4_NoSubtaskCallWithoutParentKey ==
    \A i \in 1..Len(calls) :
        is_subtask_type(calls[i].issue_type) => calls[i].parent_key # None

\* ------------------------------------------------------------------ C5
\* C5: a handled Subtask whose first non-Subtask ancestor is an Epic that had
\* its remote key is sent once, with issue type Task, epic_key = the Epic's
\* key and parent_key = None, and its promotion note is in the notes.
C5_SubtaskUnderEpicPromoted ==
    \A ix \in Indices :
        (/\ Handled(ix)
         /\ IsSubtaskTicket(ix)
         /\ HasParent(ix)
         /\ NonSubtaskAncestor(ix) # None
         /\ IsEpicTicket(NonSubtaskAncestor(ix))
         /\ HadKeyBefore(NonSubtaskAncestor(ix), ix))
        => /\ Cardinality(CallsOf(ix)) = 1
           /\ \A i \in CallsOf(ix) :
                /\ calls[i].issue_type = TaskLabel
                /\ calls[i].epic_key = KeyOf(NonSubtaskAncestor(ix))
                /\ calls[i].parent_key = None
           /\ Count(errors, PromotedNote(index_to_ticket(ix).summary)) = 1

\* A Subtask under a created Epic has been sent as a Task.
C5_Witness ==
    \E ix \in Indices :
        /\ Handled(ix)
        /\ IsSubtaskTicket(ix)
        /\ HasParent(ix)
        /\ NonSubtaskAncestor(ix) # None
        /\ IsEpicTicket(NonSubtaskAncestor(ix))
        /\ HadKeyBefore(NonSubtaskAncestor(ix), ix)
        /\ \E i \in CallsOf(ix) : calls[i].epic_key # None

\* ------------------------------------------------------------------ C6
\* C6: a handled Subtask whose first non-Subtask ancestor A is not an Epic is
\* sent once with its own (Subtask) type, parent_key = key of A and
\* epic_key = None when A had its key, and is Skipped when A had none.
C6_SubtaskAttachedToStoryOrTask ==
    \A ix \in Indices :
        (/\ Handled(ix)
         /\ IsSubtaskTicket(ix)
         /\ HasParent(ix)
         /\ NonSubtaskAncestor(ix) # None
         /\ ~IsEpicTicket(NonSubtaskAncestor(ix)))
        => IF HadKeyBefore(NonSubtaskAncestor(ix), ix)
           THEN /\ Cardinality(CallsOf(ix)) = 1
                /\ \A i \in CallsOf(ix) :
                    /\ calls[i].issue_type = index_to_ticket(ix).type
                    /\ is_subtask_type(calls[i].issue_type)
                    /\ calls[i].parent_key = KeyOf(NonSubtaskAncestor(ix))
                    /\ calls[i].epic_key = None
           ELSE Skipped(ix)

\* A Subtask and a Subtask nested under it were both sent with the key of the
\* same Story/Task, and another Subtask was skipped for a keyless Story/Task.
C6_Witness ==
    \E ix, jx \in Indices :
        /\ IsSubtaskTicket(ix) /\ IsSubtaskTicket(jx)
        /\ index_to_ticket(jx).parent_index = ix
        /\ HasParent(ix)
        /\ NonSubtaskAncestor(ix) # None
        /\ ~IsEpicTicket(NonSubtaskAncestor(ix))
        /\ NonSubtaskAncestor(jx) = NonSubtaskAncestor(ix)
        /\ \E i \in CallsOf(ix) :
            calls[i].parent_key = KeyOf(NonSubtaskAncestor(ix))
        /\ \E j \in CallsOf(jx) :
            calls[j].parent_key = KeyOf(NonSubtaskAncestor(ix))

\* ------------------------------------------------------------------ C7
\* C7: at the end of a run, a Story/Task whose parent_index points at an Epic
\* that was created has been sent with epic_key = that Epic's key and
\* parent_key = None.
C7_StoryUnderCreatedEpicLinked ==
    pc = "returned" =>
        \A ix \in Indices :
            (/\ IsStoryOrTaskTicket(ix)
             /\ HasParent(ix)
             /\ index_to_ticket(ix).parent_index \in Indices
             /\ IsEpicTicket(index_to_ticket(ix).parent_index)
             /\ KeyOf(index_to_ticket(ix).parent_index) # None)
            => /\ CallsOf(ix) # {}
               /\ \A i \in CallsOf(ix) :
                    /\ calls[i].epic_key = KeyOf(index_to_ticket(ix).parent_index)
                    /\ calls[i].parent_key = None

\* ------------------------------------------------------------------ C8
\* C8: every create_issue call for an Epic has epic_key = None and
\* parent_key = None.
C8_EpicSentWithoutLinks ==
    \A i \in 1..Len(calls) :
        IsEpicTicket(calls[i].index) =>
            calls[i].epic_key = None /\ calls[i].parent_key = None

\* ------------------------------------------------------------------ C9
\* C9: a call carries a parent_key only when its issue type is Subtask (the
\* unchanged type of a Subtask ticket); a call for any other ticket has no
\* parent_key and, as epic_key, None or the key of its nearest Epic ancestor.
C9_ParentKeyOnlyForSubtaskCalls ==
    \A i \in 1..Len(calls) :
        /\ calls[i].parent_key # None =>
            /\ is_subtask_type(calls[i].issue_type)
            /\ IsSubtaskTicket(calls[i].index)
        /\ ~IsSubtaskTicket(calls[i].index) =>
            /\ calls[i].parent_key = None
            /\ \/ calls[i].epic_key = None
               \/ /\ HasParent(calls[i].index)
                  /\ EpicAncestor(calls[i].index) # None
                  /\ calls[i].epic_key = KeyOf(EpicAncestor(calls[i].index))

\* A Subtask call carries the key of a Story/Task, and a Story/Task declared
\* under that created Story/Task was sent without a parent_key.
C9_Witness ==
    \E i, j \in 1..Len(calls) :
        LET ix == calls[j].index IN
        /\ calls[i].parent_key # None
        /\ IsStoryOrTaskTicket(ix)
        /\ HasParent(ix)
        /\ index_to_ticket(ix).parent_index \in Indices
        /\ IsStoryOrTaskTicket(index_to_ticket(ix).parent_index)
        /\ KeyOf(index_to_ticket(ix).parent_index) = calls[i].parent_key
        /\ calls[j].parent_key = None

\* ------------------------------------------------------------------ C10
\* C10 as stated: after create_issue failed for P, no call is made for a
\* ticket whose resolved ancestor is P.
C10_NoCallUnderFailedAncestor ==
    \A i, j \in 1..Len(calls) :
        (i < j /\ calls[i].result = None)
        => ResolvedAncestor(calls[j].index) # calls[i].index

\* C10 as amended: after create_issue failed for P no key is recorded for P;
\* every handled Subtask whose first non-Subtask ancestor is P is Skipped;
\* a call for a non-Subtask ticket whose nearest Epic ancestor is P is still
\* made, with epic_key = None and parent_key = None.
C10_FailedAncestorSkipsSubtasksOnly ==
    \A i \in 1..Len(calls) :
        calls[i].result = None =>
            LET P == calls[i].index IN
            /\ KeyOf(P) = None
            /\ index_to_ticket(P).key = None
            /\ ~IsCreated(P)
            /\ \A ix \in Indices :
                (Handled(ix) /\ IsSubtaskTicket(ix) /\ ResolvedAncestor(ix) = P)
                => Skipped(ix)
            /\ \A j \in 1..Len(calls) :
                (~IsSubtaskTicket(calls[j].index)
                 /\ ResolvedAncestor(calls[j].index) = P)
                => calls[j].epic_key = None /\ calls[j].parent_key = None

\* create_issue failed for a Story and for an Epic; a Subtask under the Story
\* was skipped afterwards and a Story under the Epic was sent all the same.
C10_Witness ==
    \E i \in 1..Len(calls) :
        /\ calls[i].result = None
        /\ \E ix \in Indices :
            /\ IsSubtaskTicket(ix)
            /\ ResolvedAncestor(ix) = calls[i].index
            /\ PlanPos(ix) > PlanPos(calls[i].index)
            /\ Skipped(ix)
        /\ \E k, j \in 1..Len(calls) :
            /\ k < j
            /\ calls[k].result = None
            /\ ~IsSubtaskTicket(calls[j].index)
            /\ ResolvedAncestor(calls[j].index) = calls[k].index

\* ------------------------------------------------------------------ C11
\* The outcome of ticket ix: exactly one of a Created record, a failed call
\* and a skip (no call).
ResolvedOnce(ix) ==
    /\ Count([k \in 1..Len(progress) |-> progress[k][3]],
             index_to_ticket(ix).summary) = 1
    /\ Cardinality(CallsOf(ix)) <= 1
    /\ \/ /\ IsCreated(ix)
          /\ \E i \in CallsOf(ix) : calls[i].result # None
       \/ /\ ~IsCreated(ix)
          /\ \E i \in CallsOf(ix) : calls[i].result = None
          /\ Count(errors, FailedNote(index_to_ticket(ix).summary)) = 1
       \/ /\ ~IsCreated(ix)
          /\ CallsOf(ix) = {}

\* C11: no exception leaves create_tickets; while the loop runs it is at a
\* ticket of the plan whose resolution is defined (so an iteration can be
\* taken) or at the end of the plan (so it returns); and when it has returned
\* every ticket of the plan has been resolved exactly once, whatever was
\* skipped or failed.
C11_BatchNeverAborts ==
    /\ pc # "raised"
    /\ pc = "creating" =>
        /\ pos <= Len(sorted_tickets)
        /\ pos < Len(sorted_tickets) => Resolve(Current).skip \in BOOLEAN
    /\ pc = "returned" =>
        /\ pos = Len(tickets)
        /\ Len(sorted_tickets) = Len(tickets)
        /\ Len(progress) = Len(tickets)
        /\ \A ix \in Indices : ResolvedOnce(ix)

\* A run returned after a skip and a creator failure, and created a ticket
\* after both.
C11_Witness ==
    /\ pc = "returned"
    /\ \E sx, fx, cx \in Indices :
        /\ CallsOf(sx) = {}
        /\ \E i \in CallsOf(fx) : calls[i].result = None
        /\ IsCreated(cx)
        /\ PlanPos(sx) < PlanPos(cx)
        /\ PlanPos(fx) < PlanPos(cx)

\* ------------------------------------------------------------------ C12
NoRepeats(chain) ==
    \A i, j \in 1..Len(chain) : chain[i] = chain[j] => i = j

\* C12: for every start index (live, dangling or None) find_parent_chain
\* returns a chain of at most one entry per ticket plus one dangling entry,
\* with no index twice, that follows the parent links from start and stops at
\* an absent parent or at an index already in it; and ancestor resolution
\* returns the nearest matching live ticket, None when the walk meets none.
C12_ParentWalkTerminates ==
    \A start \in TicketIndices \cup {DanglingIndex, None} :
        LET chain == find_parent_chain(start) IN
        /\ Len(chain) <= Cardinality(TicketIndices) + 1
        /\ NoRepeats(chain)
        /\ IF start = None THEN chain = <<>>
           ELSE /\ chain # <<>>
                /\ chain[1] = start
                /\ \A k \in 1..(Len(chain) - 1) :
                    chain[k + 1] = ParentOf(chain[k])
                /\ \/ ParentOf(chain[Len(chain)]) = None
                   \/ ParentOf(chain[Len(chain)]) \in Range(chain)
        /\ find_first_non_subtask_ancestor(start)
               = NearestAncestor(start, NotSubtaskType)
        /\ find_epic_ancestor(start) = NearestAncestor(start, is_epic_type)

\* A batch with a cycle of two tickets and a dangling reference, in which the
\* resolution from the cycle and from the dangling reference finds nothing.
C12_Witness ==
    \E ix, jx, dx \in Indices :
        /\ ix # jx
        /\ index_to_ticket(ix).parent_index = jx
        /\ index_to_ticket(jx).parent_index = ix
        /\ find_parent_chain(ix) = <<ix, jx>>
        /\ find_first_non_subtask_ancestor(ix) = None
        /\ index_to_ticket(dx).parent_index = DanglingIndex
        /\ find_parent_chain(dx) = <<dx, DanglingIndex>>
        /\ find_epic_ancestor(DanglingIndex) = None

\* ------------------------------------------------------------------ C16
\* C16: the k-th notification is (k, batch size, summary of the k-th ticket
\* of the plan).
C16_ProgressPositionsArePlanPositions ==
    \A k \in 1..Len(progress) :
        progress[k] =
            <<k, Len(tickets), tickets[sorted_tickets[k]].summary>>

\* ------------------------------------------------------------------ C18
CanonicalTypes == {EpicLabel, StoryLabel, TaskLabel, SubtaskLabel}

\* C18: the issue type of every creator call, as JiraClient.create_issue
\* names it to the remote system, is one of Epic, Story, Task, Subtask.
C18_IssueTypeIsCanonical ==
    \A i \in 1..Len(calls) :
        normalize_issue_type(calls[i].issue_type) \in CanonicalTypes

\* ------------------------------------------------------------------ C19
\* The index of the ticket a note is about (summaries are one per ticket).
NoteTicket(note) ==
    CHOOSE ix \in Indices : index_to_ticket(ix).summary = note[2]

\* C19: the Created records are in planned order, and the notes are ordered
\* by the planned position of their ticket; two notes of one ticket are its
\* promotion note followed by its failure note.
C19_OutputsInCreationOrder ==
    /\ \A i, j \in 1..Len(created_tickets) :
        i < j =>
            PlanPos(created_tickets[i].original_index)
                < PlanPos(created_tickets[j].original_index)
    /\ \A i, j \in 1..Len(errors) :
        i < j =>
            \/ PlanPos(NoteTicket(errors[i])) < PlanPos(NoteTicket(errors[j]))
            \/ /\ NoteTicket(errors[i]) = NoteTicket(errors[j])
               /\ errors[i] = PromotedNote(errors[i][2])
               /\ errors[j] = FailedNote(errors[j][2])

\* Two records were created in an order that is not the batch order, and a
\* promoted Subtask failed after an earlier ticket left a note.
C19_Witness ==
    /\ \E i, j \in 1..Len(created_tickets) :
        /\ i < j
        /\ created_tickets[i].original_index > created_tickets[j].original_index
    /\ \E i \in 1..(Len(errors) - 2) :
        /\ errors[i + 1] = PromotedNote(errors[i + 1][2])
        /\ errors[i + 2] = FailedNote(errors[i + 1][2])

\* ------------------------------------------------------------------ C13
\* Every ticket's index is its position in the list, counted from 0.
IndexIsPosition(ts) == \A k \in 1..Len(ts) : ts[k].index = k - 1

\* The position before the step of the ticket that the step leaves at
\* position k, when the ticket at position i (from 0) is taken out.
Survivor(k, i) == IF k <= i THEN k ELSE k + 1

\* The step is a deletion during review.
DeletionStep ==
    /\ flow = "console"
    /\ pc = "review"
    /\ Len(tickets') < Len(tickets)

\* C13: deleting the ticket at position i of N during review leaves the N-1
\* other tickets in their previous relative order with index fields 0..N-2,
\* and before and after every edit or deletion each ticket's index equals
\* its position in the list.
C13_DeletionRenumbersSurvivors ==
    [][/\ IndexIsPosition(tickets)
       /\ IndexIsPosition(tickets')
       /\ DeletionStep =>
            /\ Len(tickets') = Len(tickets) - 1
            /\ \E i \in 0..(Len(tickets) - 1) :
                \A k \in 1..Len(tickets') :
                    tickets'[k] =
                        [tickets[Survivor(k, i)] EXCEPT !.index = k - 1]]_vars

\* The third ticket of a batch is the only one left after two deletions, was
\* edited, and carries index 0.
C13_Witness ==
    /\ flow = "console"
    /\ pc = "review"
    /\ Len(tickets) = 1
    /\ tickets[1].summary = EditedSummary(SummaryOf(2))
    /\ tickets[1].index = 0

\* ------------------------------------------------------------------ C14
\* The step deletes the ticket at position i (from 0) during review.
DeletedAt(i) ==
    /\ DeletionStep
    /\ Len(tickets') = Len(tickets) - 1
    /\ \A k \in 1..Len(tickets') :
        tickets'[k].summary = tickets[Survivor(k, i)].summary

\* C14: after ticket i is deleted, the parent_index of every surviving
\* ticket that pointed at i matches the index of no ticket of the batch: it
\* does not designate another surviving ticket.
C14_ParentOfDeletedBecomesDangling ==
    [][\A i \in 0..(Len(tickets) - 1) :
        DeletedAt(i) =>
            \A k \in 1..Len(tickets') :
                tickets[Survivor(k, i)].parent_index = i =>
                    \A j \in 1..Len(tickets') :
                        tickets'[j].index # tickets'[k].parent_index]_vars

\* ------------------------------------------------------------------ C15
\* Some ticket's parent_index matches the index of no ticket of the batch.
HasDanglingParent ==
    \E k \in 1..Len(tickets) :
        /\ tickets[k].parent_index # None
        /\ \A j \in 1..Len(tickets) :
            tickets[j].index # tickets[k].parent_index

\* C15: a dangling parent_index never raises an exception, neither in the
\* preview of the review phase nor in create_tickets.
C15_DanglingParentNeverRaises ==
    HasDanglingParent => pc \notin {"crashed", "raised"}

\* ------------------------------------------------------------------ C17
\* The operator has explicitly confirmed the creation.
Confirmed ==
    CASE flow = "console" -> answer = "yes"
      [] flow = "streamlit" -> confirm
      [] OTHER -> TRUE

\* C17: an Issue Creator call is made, and create_tickets is entered, only
\* under the operator's confirmation; a console run that ends by quitting
\* the review or by declining the confirmation has made no call.
C17_NoCallBeforeConfirmation ==
    [][/\ Len(calls') > Len(calls) => Confirmed /\ Confirmed'
       /\ pc' = "ready" => Confirmed'
       /\ pc' = "exited" => calls' = <<>>]_vars

\* The console operator went through the review and declined.
C17_Witness ==
    /\ flow = "console"
    /\ pc = "exited"
    /\ answer = "no"
    /\ calls = <<>>

\* ------------------------------------------------------------------ C20
CountChar(text, ch) == Cardinality({i \in 1..Len(text) : text[i] = ch})

NonEmptyCriteria(criteria) == SelectSeq(criteria, LAMBDA ac : ac # <<>>)

\* C20: the description sent is the ticket's description, followed, when the
\* criteria list is not empty, by the header and exactly one bullet per
\* non-empty criterion in list order; an empty criterion gives no bullet.
C20_OneBulletPerNonEmptyCriterion ==
    pc = "formatted" =>
        LET ac == format_in.acceptance_criteria IN
        /\ ac = <<>> => format_out = format_in.description
        /\ ac # <<>> =>
            format_out =
                (format_in.description \o CriteriaHeader)
                    \o Bullets(NonEmptyCriteria(ac))
        /\ CountChar(format_out, BulletMark) = Len(NonEmptyCriteria(ac))

\* ------------------------------------------------------------------ C21
\* C21: a ticket has no key until a create_issue call for it succeeds; the
\* step that writes the key is that call and stores the same key in the
\* index-to-key map; a key once written, in the ticket or in the map, is the
\* same after every later step.
C21_KeySetOnceOnSuccess ==
    [][/\ \A k \in 1..Len(tickets) :
            /\ tickets[k].key # None => tickets'[k].key = tickets[k].key
            /\ (tickets[k].key = None /\ tickets'[k].key # None) =>
                /\ Len(calls') = Len(calls) + 1
                /\ calls'[Len(calls')].index = tickets[k].index
                /\ calls'[Len(calls')].result = tickets'[k].key
                /\ tickets[k].index \notin DOMAIN index_to_key
                /\ tickets[k].index \in DOMAIN index_to_key'
                /\ index_to_key'[tickets[k].index] = tickets'[k].key
            /\ (tickets'[k].key = None /\ pc' # "ready") =>
                tickets[k].index \notin DOMAIN index_to_key'
       /\ \A ix \in DOMAIN index_to_key :
            /\ ix \in DOMAIN index_to_key'
            /\ index_to_key'[ix] = index_to_key[ix]]_vars

\* A run created its first ticket, then met a failure and a skip, and the
\* first key is still in the ticket and in the map.
C21_Witness ==
    /\ pc = "returned"
    /\ Len(calls) >= 2
    /\ calls[1].result # None
    /\ calls[2].result = None
    /\ \E i \in 1..Len(errors) : \E sm \in {SummaryOf(j) : j \in 0..MaxTickets} :
        errors[i] = SkippedNote(sm)
    /\ \E k \in 1..Len(tickets) :
        /\ tickets[k].index = calls[1].index
        /\ tickets[k].key = calls[1].result
        /\ KeyOf(tickets[k].index) = calls[1].result

\* ------------------------------------------------------------------ C26
\* The map has an entry exactly for the original_index of every Created
\* record, with the key of that record.
MapMatchesRecords(map, records) ==
    /\ DOMAIN map = {records[i].original_index : i \in 1..Len(records)}
    /\ \A i \in 1..Len(records) :
        map[records[i].original_index] = records[i].key

\* The step skips a ticket (no call) or fails for it (a call without result).
SkipOrFailStep ==
    /\ pc = "creating"
    /\ progress' # progress
    /\ \/ calls' = calls
       \/ calls'[Len(calls')].result = None

\* C26: before and after every step the domain of the index-to-key map is
\* the set of original_index values of the Created records and each mapped
\* key is the key of its record; a step that skips a ticket or fails for it
\* changes neither the map nor the Created list.
C26_MapMatchesCreatedRecords ==
    [][/\ MapMatchesRecords(index_to_key, created_tickets)
       /\ MapMatchesRecords(index_to_key', created_tickets')
       /\ SkipOrFailStep =>
            /\ index_to_key' = index_to_key
            /\ created_tickets' = created_tickets]_vars

\* Two tickets are created, the second of them first in the batch, and a
\* third was skipped or failed in between or after.
C26_Witness ==
    /\ pc = "returned"
    /\ Len(tickets) = 3
    /\ Len(created_tickets) = 2
    /\ created_tickets[1].original_index > created_tickets[2].original_index

\* ------------------------------------------------------------------ C28
\* The fields of a ticket that create_tickets may not write.
Content(ticket) ==
    <<ticket.index, ticket.type, ticket.summary, ticket.parent_index>>

\* C28: no step of create_tickets changes a ticket's index, type, summary or
\* parent_index or the length and order of the batch; a key changes only in
\* a step that adds a Created record.
C28_OnlyKeyWrittenOnSuccess ==
    [][/\ Len(tickets') = Len(tickets)
       /\ \A k \in 1..Len(tickets) :
            /\ Content(tickets'[k]) = Content(tickets[k])
            /\ tickets'[k].key # tickets[k].key =>
                Len(created_tickets') = Len(created_tickets) + 1]_vars

\* A Subtask was promoted and sent as a Task, and its stored type is still a
\* Subtask type.
C28_Witness ==
    \E i \in 1..Len(calls) :
        /\ calls[i].result # None
        /\ calls[i].issue_type = TaskLabel
        /\ IsSubtaskTicket(calls[i].index)
        /\ index_to_ticket(calls[i].index).key = calls[i].result

\* ------------------------------------------------------------------ C23
\* Key k was returned by a successful call for ticket a before call number i.
ReturnedBefore(k, a, i) ==
    \E j \in 1..(i - 1) : calls[j].index = a /\ calls[j].result = k

\* C23: every parent_key or epic_key other than None passed to create_issue
\* is the key an earlier successful call of the run returned for the
\* resolved ancestor of the ticket of the call.
C23_LinkKeysComeFromEarlierCalls ==
    \A i \in 1..Len(calls) :
        LET c == calls[i]
            a == ResolvedAncestor(c.index)
        IN
        /\ c.parent_key # None =>
            a # None /\ ReturnedBefore(c.parent_key, a, i)
        /\ c.epic_key # None =>
            a # None /\ ReturnedBefore(c.epic_key, a, i)

\* A Story was sent with its Epic's key and a later call carries the key
\* that call returned as parent_key.
C23_Witness ==
    \E i, j \in 1..Len(calls) :
        /\ i < j
        /\ calls[i].epic_key # None
        /\ calls[i].result # None
        /\ calls[j].parent_key = calls[i].result

\* ------------------------------------------------------------------ C24
NotesOfKind(prefix) == {i \in 1..Len(errors) : errors[i][1] = prefix}

NotesFor(note) == {i \in 1..Len(errors) : errors[i] = note}

\* How many of Created, Skipped and Failed ticket ix ended in.
Outcomes(ix) ==
    LET sm == index_to_ticket(ix).summary IN
    Cardinality({i \in 1..Len(created_tickets) :
                    created_tickets[i].original_index = ix})
    + Cardinality(NotesFor(SkippedNote(sm)))
    + Cardinality(NotesFor(FailedNote(sm)))

\* C24: a ticket the loop has handled ended in exactly one of Created,
\* Skipped and Failed and a ticket it has not handled in none; at the end of
\* a run over N tickets the Created records, the 'Skipped subtask' notes and
\* the 'Failed to create' notes are N together; create_issue is called at
\* most once per ticket and never for a ticket with a 'Skipped subtask' note.
C24_OneOutcomePerTicket ==
    /\ Planned =>
        \A ix \in Indices : Outcomes(ix) = IF Handled(ix) THEN 1 ELSE 0
    /\ pc = "returned" =>
        Len(created_tickets)
        + Cardinality(NotesOfKind(SkippedNote(<<>>)[1]))
        + Cardinality(NotesOfKind(FailedNote(<<>>)[1]))
        = Len(tickets)
    /\ \A ix \in Indices :
        /\ Cardinality(CallsOf(ix)) <= 1
        /\ NotesFor(SkippedNote(index_to_ticket(ix).summary)) # {} =>
            CallsOf(ix) = {}

\* A finished run of three tickets with one Created, one Failed and one
\* Skipped.
C24_Witness ==
    /\ pc = "returned"
    /\ Len(tickets) = 3
    /\ Len(created_tickets) = 1
    /\ Cardinality(NotesOfKind(SkippedNote(<<>>)[1])) = 1
    /\ Cardinality(NotesOfKind(FailedNote(<<>>)[1])) = 1

\* ------------------------------------------------------------------ C25
\* The notes the step appends.
NewNotes == SubSeq(errors', Len(errors) + 1, Len(errors'))

\* The loop is at a Subtask whose first non-Subtask ancestor is an Epic
\* without a key.
AtSubtaskUnderKeylessEpic ==
    /\ pc = "creating"
    /\ pos < Len(sorted_tickets)
    /\ LET ix == tickets[sorted_tickets[pos + 1]].index IN
        /\ IsSubtaskTicket(ix)
        /\ HasParent(ix)
        /\ NonSubtaskAncestor(ix) # None
        /\ IsEpicTicket(NonSubtaskAncestor(ix))
        /\ KeyOf(NonSubtaskAncestor(ix)) = None

\* C25: the step for a Subtask whose first non-Subtask ancestor is an Epic
\* without a key appends the missing-parent note and nothing else and makes
\* no call; a step that appends a promotion note for a ticket makes a
\* create_issue call for that ticket.
C25_PromotionNoteOnlyWithCall ==
    [][/\ (AtSubtaskUnderKeylessEpic /\ pos' # pos) =>
            /\ NewNotes =
                   <<SkippedNote(tickets[sorted_tickets[pos + 1]].summary)>>
            /\ calls' = calls
       /\ \A n \in 1..Len(NewNotes) :
            NewNotes[n][1] = PromotedNote(<<>>)[1] =>
                /\ Len(calls') = Len(calls) + 1
                /\ calls'[Len(calls')].summary = NewNotes[n][2]
                /\ calls'[Len(calls')].epic_key # None]_vars

\* The Epic failed, its Subtask was skipped with the missing-parent note and
\* no promotion note exists.
C25_Witness ==
    \E e, ix \in Indices :
        /\ IsEpicTicket(e)
        /\ IsSubtaskTicket(ix)
        /\ HasParent(ix)
        /\ NonSubtaskAncestor(ix) = e
        /\ NotesFor(FailedNote(index_to_ticket(e).summary)) # {}
        /\ Skipped(ix)
        /\ NotesOfKind(PromotedNote(<<>>)[1]) = {}

\* ------------------------------------------------------------------ C27
\* C27: no create_issue call carries both a parent_key and an epic_key, and
\* a parent_key is the key of a ticket that is neither a Subtask nor an Epic.
C27_TwoLevelHierarchy ==
    \A i \in 1..Len(calls) :
        /\ ~(calls[i].parent_key # None /\ calls[i].epic_key # None)
        /\ calls[i].parent_key # None =>
            \E ix \in Indices :
                /\ KeyOf(ix) = calls[i].parent_key
                /\ IsStoryOrTaskTicket(ix)

\* An Epic, a Subtask promoted under it with the Epic's key as epic_key, and
\* a Subtask of that promoted ticket sent under the Epic as well, not under
\* the promoted ticket.
C27_Witness ==
    \E i, j \in 1..Len(calls) :
        /\ IsEpicTicket(calls[i].index)
        /\ calls[i].result # None
        /\ IsSubtaskTicket(calls[j].index)
        /\ calls[j].epic_key = calls[i].result
        /\ calls[j].parent_key = None
        /\ calls[j].result # None
        /\ \E ix \in Indices :
            /\ IsSubtaskTicket(ix)
            /\ index_to_ticket(ix).parent_index = calls[j].index
            /\ \E k \in CallsOf(ix) :
                /\ calls[k].parent_key = None
                /\ calls[k].epic_key = calls[i].result

\* ------------------------------------------------------------------ C30
\* The step enters create_tickets from the Streamlit page.
CreateStarts == flow = "streamlit" /\ pc = "idle" /\ pc' = "ready"

\* C30: in the Streamlit flow create_tickets is entered at most once for a
\* draft; after a run created is true, and it stays true until a step that
\* replaces or clears the draft; create_tickets is entered only when created
\* is false, the ticket list is not empty and the trimmed requirements text
\* is the last analysed text.
C30_AtMostOneRunPerDraft ==
    [][/\ draft_runs <= 1 /\ draft_runs' <= 1
       /\ CreateStarts =>
            /\ ~st_created
            /\ draft_runs = 0
            /\ tickets # <<>>
            /\ Strip(requirements) = last_requirements
       /\ (flow = "streamlit" /\ pc = "returned" /\ pc' = "idle") =>
            st_created'
       /\ (st_created /\ ~st_created') =>
            /\ draft_runs' = 0
            /\ last_requirements' = Strip(requirements) \/ tickets' = <<>>]_vars

\* A draft was created, the page was used again without a new analysis and
\* the same draft is still there, created, with its one run.
C30_Witness ==
    /\ flow = "streamlit"
    /\ pc = "idle"
    /\ st_created
    /\ draft_runs = 1
    /\ tickets # <<>>
    /\ confirm
    /\ Strip(requirements) # last_requirements
    /\ Len(created_tickets) = Len(tickets)

\* ------------------------------------------------------------------ C22
\* A blank line holds nothing but spaces.
Blank(line) == \A i \in 1..Len(line) : line[i] = " "

\* Reading stops at line k: '/done' after trimming and lower-casing, or the
\* second of two consecutive blank lines.
StopsAt(k) ==
    \/ Lower(Strip(stdin[k])) = DoneCommand
    \/ /\ k >= 2
       /\ Blank(stdin[k])
       /\ Blank(stdin[k - 1])

\* The first line at which reading stops, one past the end when input ends
\* first.
StopPoint ==
    LET stops == {k \in 1..Len(stdin) : StopsAt(k)} IN
    IF stops = {} THEN Len(stdin) + 1
    ELSE CHOOSE k \in stops : \A h \in stops : k <= h

\* The non-blank lines before the stop point, joined by line feeds.
ExpectedRequirements ==
    JoinLines(SelectSeq(SubSeq(stdin, 1, StopPoint - 1),
                        LAMBDA line : ~Blank(line)))

\* C22: get_requirements, when it is not cancelled, has read up to the first
\* '/done' line, second consecutive blank line or end of input and returns
\* the non-blank lines before that point, in order, joined by line feeds.
C22_RequirementsUpToStopPoint ==
    pc = "got" =>
        /\ req_out = ExpectedRequirements
        /\ read = IF StopPoint <= Len(stdin) THEN StopPoint ELSE Len(stdin)

\* Text, blank, text, blank was typed and input ended: both texts are
\* returned, the counter having been reset by the second text.
C22_Witness ==
    /\ pc = "got"
    /\ stdin = << <<"a">>, <<>>, <<"b">>, <<" ">> >>
    /\ read = 4
    /\ req_out = <<"a", "\n", "b">>

\* ------------------------------------------------------------------ C29
\* C29: once the client holds an Epic Link field id, no later create_issue
\* call changes it or makes a field request, and every later call that
\* carries an epic_key puts the key under that id.
C29_EpicLinkFieldIdCached ==
    [][epic_link_field_id # None =>
        /\ epic_link_field_id' = epic_link_field_id
        /\ field_requests' = field_requests
        /\ (Len(sent') > Len(sent) /\ sent'[Len(sent')].epic_key # None) =>
            sent'[Len(sent')].link_field = epic_link_field_id]_vars

\* The first lookup found nothing, the second found the id, and a third call
\* with an epic_key used it without a third request.
C29_Witness ==
    /\ Len(sent) = 3
    /\ field_requests = 2
    /\ epic_link_field_id # None
    /\ sent[1].epic_key # None
    /\ sent[1].link_field = None
    /\ sent[1].parent = sent[1].epic_key
    /\ sent[2].link_field = epic_link_field_id
    /\ sent[3].epic_key # None
    /\ sent[3].link_field = epic_link_field_id

====
